---- MODULE Spec2Model ----
(***************************************************************************)
(* Port Hole on Tube -- fatigue FOS and life (src/Fat1.py).                *)
(*                                                                         *)
(* The program is a Streamlit script: every change of a widget re-runs the *)
(* whole script, which reads the widget values and recomputes the chain    *)
(* t, Sh, Sl, Sc, Sa, Sm, Se, Sp, Sq, B, A, static_fos, fatigue_fos,       *)
(* life_cycles.  The state is the widget values (inp) and the values the   *)
(* last run bound (out).                                                   *)
(*                                                                         *)
(* Arithmetic is exact.  A Python float is modelled by the real number it  *)
(* stands for: a rational, an element a + b*Sc of the field generated by   *)
(* the one square root the script takes, a multiple of a base-10 logarithm *)
(* (B) or a power (life_cycles) known by its sign.  Every test the script  *)
(* makes (== 0, > 0, >= 0, is None) is decided exactly on these.  Rounding *)
(* error, overflow and underflow of binary64 are outside the model.        *)
(***************************************************************************)
EXTENDS Integers, Sequences, FiniteSets, TLC

VARIABLES inp, out, memo

vars == <<inp, out, memo>>

(***************************************************************************)
(* Exact rationals: [n |-> numerator, d |-> denominator], d > 0, reduced.  *)
(***************************************************************************)
Abs(i) == IF i < 0 THEN -i ELSE i

Sgn(i) == IF i < 0 THEN -1 ELSE IF i = 0 THEN 0 ELSE 1

RECURSIVE Gcd(_, _)
Gcd(a, b) == IF b = 0 THEN a ELSE Gcd(b, a % b)

Rat(n, d) ==
  LET g == Gcd(Abs(n), Abs(d))
  IN  [n |-> Sgn(d) * (n \div g), d |-> Abs(d) \div g]

RInt(i) == [n |-> i, d |-> 1]

RNeg(x) == [n |-> -x.n, d |-> x.d]

RSign(x) == Sgn(x.n)

RAbs(x) == [n |-> Abs(x.n), d |-> x.d]

RMul(x, y) ==
  LET g1 == Gcd(Abs(x.n), y.d)
      g2 == Gcd(Abs(y.n), x.d)
  IN  IF x.n = 0 \/ y.n = 0 THEN RInt(0)
      ELSE IF x.d = 1 /\ y.d = 1 THEN RInt(x.n * y.n)
      ELSE IF x.n = 1 /\ x.d = 1 THEN y
      ELSE IF y.n = 1 /\ y.d = 1 THEN x
      ELSE [n |-> (x.n \div g1) * (y.n \div g2),
            d |-> (x.d \div g2) * (y.d \div g1)]

RInv(x) == [n |-> Sgn(x.n) * x.d, d |-> Abs(x.n)]

RDiv(x, y) == RMul(x, RInv(y))

RAdd(x, y) ==
  LET g == Gcd(x.d, y.d)
  IN  IF x.n = 0 THEN y
      ELSE IF y.n = 0 THEN x
      ELSE IF x.d = 1 /\ y.d = 1 THEN RInt(x.n + y.n)
      ELSE Rat(x.n * (y.d \div g) + y.n * (x.d \div g), (x.d \div g) * y.d)

RSub(x, y) == RAdd(x, RNeg(y))

(* The order of two rationals by their continued fractions: no product is  *)
(* formed, so operands near the integer range compare without overflow.    *)
RECURSIVE RCmpPos(_, _, _, _)
RCmpPos(a, b, c, d) ==
  LET qa == a \div b
      qc == c \div d
      ra == a % b
      rc == c % d
  IN  IF qa # qc THEN Sgn(qa - qc)
      ELSE IF ra = 0 /\ rc = 0 THEN 0
      ELSE IF ra = 0 THEN -1
      ELSE IF rc = 0 THEN 1
      ELSE RCmpPos(d, rc, b, ra)

RCmp(x, y) ==
  IF RSign(x) # RSign(y) THEN Sgn(RSign(x) - RSign(y))
  ELSE IF RSign(x) = 0 THEN 0
  ELSE IF RSign(x) > 0 THEN RCmpPos(x.n, x.d, y.n, y.d)
  ELSE RCmpPos(-y.n, y.d, -x.n, x.d)

RECURSIVE RPowNat(_, _)
RPowNat(x, m) == IF m = 0 THEN RInt(1) ELSE RMul(x, RPowNat(x, m - 1))

RPowInt(x, m) == IF m >= 0 THEN RPowNat(x, m) ELSE RPowNat(RInv(x), -m)

(* j when the positive integer i is 10^j, and -1 when it is no power of 10 *)
RECURSIVE Pow10Exp(_)
Pow10Exp(i) ==
  IF i = 1 THEN 0
  ELSE IF i % 10 # 0 THEN -1
  ELSE LET j == Pow10Exp(i \div 10) IN IF j < 0 THEN -1 ELSE j + 1

IsPow10(q) ==
  /\ q.n > 0
  /\ \/ q.d = 1 /\ Pow10Exp(q.n) >= 0
     \/ q.n = 1 /\ Pow10Exp(q.d) >= 0

(* log10 of a rational that is a power of ten *)
Log10Exact(q) == IF q.d = 1 THEN Pow10Exp(q.n) ELSE -Pow10Exp(q.d)

(* the integer square root of i, searched between lo and hi *)
RECURSIVE ISqrtIn(_, _, _)
ISqrtIn(i, lo, hi) ==
  LET mid == (lo + hi + 1) \div 2
  IN  IF lo = hi THEN lo
      ELSE IF mid * mid <= i THEN ISqrtIn(i, mid, hi)
      ELSE ISqrtIn(i, lo, mid - 1)

ISqrt(i) == ISqrtIn(i, 0, 46340)

(***************************************************************************)
(* Linear forms a + b*s over the rationals, s the non-negative square root *)
(* of the radicand r (the Sc_term of the run), s*s = r.                    *)
(***************************************************************************)
Lin(a, b) == [a |-> a, b |-> b]

LZero == Lin(RInt(0), RInt(0))

LOne == Lin(RInt(1), RInt(0))

LAdd(x, y) == Lin(RAdd(x.a, y.a), RAdd(x.b, y.b))

LNeg(x) == Lin(RNeg(x.a), RNeg(x.b))

LScale(x, q) == Lin(RMul(x.a, q), RMul(x.b, q))

LMul(x, y, r) ==
  IF y = LOne THEN x
  ELSE IF x = LOne THEN y
  ELSE IF x.b.n = 0 /\ y.b.n = 0 THEN Lin(RMul(x.a, y.a), RInt(0))
  ELSE Lin(RAdd(RMul(x.a, y.a), RMul(RMul(x.b, y.b), r)),
           RAdd(RMul(x.a, y.b), RMul(x.b, y.a)))

(* sign of a + b*sqrt(r), decided without taking the root: for a and b of  *)
(* opposite sign, |a/b| against sqrt(r) is |a/b| against r/|a/b|           *)
LSign(x, r) ==
  LET sa == RSign(x.a)
      sb == IF RSign(r) = 0 THEN 0 ELSE RSign(x.b)
      q  == RAbs(RDiv(x.a, x.b))
  IN  IF sb = 0 THEN sa
      ELSE IF sa = 0 \/ sa = sb THEN sb
      ELSE sa * RCmp(q, RDiv(r, q))

(***************************************************************************)
(* Python values.  k is the kind: "None", "NaN" (float("nan")), "Complex", *)
(* "Raise" (the expression raised an exception) or "Num" (a finite float). *)
(* A Num has a form f:                                                     *)
(*   "alg"  the quotient n/d of two linear forms over the radicand r;      *)
(*   "log"  c * (log10 q)^e with c, q rational, q > 0, e = 1 or -1;        *)
(*   "pow"  a non-zero real power known by its sign s only.                *)
(***************************************************************************)
None == [k |-> "None"]

NaN == [k |-> "NaN"]

Complex == [k |-> "Complex"]

Raise == [k |-> "Raise"]

HasRoot(n, d) == RSign(n.b) # 0 \/ RSign(d.b) # 0

(* normal form of n/d: a rational denominator is divided out, a common     *)
(* factor s is cancelled, and a value without s carries no radicand        *)
Alg(n, d, r) ==
  LET n1 == IF RSign(r) = 0 THEN Lin(n.a, RInt(0)) ELSE n
      d1 == IF RSign(r) = 0 THEN Lin(d.a, RInt(0)) ELSE d
      n2 == IF RSign(d1.b) = 0 THEN LScale(n1, RInv(d1.a))
            ELSE IF RSign(n1.a) = 0 /\ RSign(d1.a) = 0
                 THEN Lin(RDiv(n1.b, d1.b), RInt(0))
            ELSE IF n1 = LZero THEN LZero
            ELSE n1
      d2 == IF RSign(d1.b) = 0 THEN LOne
            ELSE IF RSign(n1.a) = 0 /\ RSign(d1.a) = 0 THEN LOne
            ELSE IF n1 = LZero THEN LOne
            ELSE d1
  IN  [k |-> "Num", f |-> "alg", n |-> n2, d |-> d2,
       r |-> IF HasRoot(n2, d2) THEN r ELSE RInt(0)]

Num(q) ==
  [k |-> "Num", f |-> "alg", n |-> Lin(q, RInt(0)), d |-> LOne, r |-> RInt(0)]

Float(n, d) == Num(Rat(n, d))

LogForm(c, q, e) == [k |-> "Num", f |-> "log", c |-> c, q |-> q, e |-> e]

PowForm(s) == [k |-> "Num", f |-> "pow", s |-> s]

IsNum(x) == x.k = "Num"

IsRational(x) == IsNum(x) /\ x.f = "alg" /\ x.n.b.n = 0 /\ x.d = LOne

RatOf(x) == x.n.a

(* the radicand two algebraic operands share *)
Rad(x, y) == IF HasRoot(x.n, x.d) THEN x.r ELSE y.r

Sign(x) ==
  CASE x.f = "alg" -> IF x.d = LOne /\ x.n.b.n = 0 THEN RSign(x.n.a)
                      ELSE LSign(x.n, x.r) * LSign(x.d, x.r)
    [] x.f = "log" -> RSign(x.c) * RCmp(x.q, RInt(1))
    [] x.f = "pow" -> x.s

(* Python's x == 0, x != 0, x > 0, x >= 0: a comparison with nan is False, *)
(* and so is None == 0                                                     *)
EqZero(x) == IsNum(x) /\ Sign(x) = 0

NeZero(x) == ~EqZero(x)

GtZero(x) == IsNum(x) /\ Sign(x) > 0

GeZero(x) == IsNum(x) /\ Sign(x) >= 0

(***************************************************************************)
(* Python's float arithmetic.  An exception in an operand propagates; None *)
(* as an operand raises TypeError; nan as an operand gives nan.            *)
(***************************************************************************)
Faulty(x, y) == x.k \in {"Raise", "None"} \/ y.k \in {"Raise", "None"}

AnyNaN(x, y) == x.k = "NaN" \/ y.k = "NaN"

Add(x, y) ==
  IF Faulty(x, y) THEN Raise
  ELSE IF AnyNaN(x, y) THEN NaN
  ELSE IF IsRational(x) /\ IsRational(y) THEN Num(RAdd(RatOf(x), RatOf(y)))
  ELSE LET r == Rad(x, y)
       IN  Alg(LAdd(LMul(x.n, y.d, r), LMul(y.n, x.d, r)), LMul(x.d, y.d, r), r)

Sub(x, y) ==
  IF Faulty(x, y) THEN Raise
  ELSE IF AnyNaN(x, y) THEN NaN
  ELSE IF x.f = "log"
       THEN (* c*log10(a) - c*log10(b) = c*log10(a/b) *)
            LogForm(x.c, RDiv(x.q, y.q), 1)
  ELSE IF IsRational(x) /\ IsRational(y) THEN Num(RSub(RatOf(x), RatOf(y)))
  ELSE LET r == Rad(x, y)
       IN  Alg(LAdd(LMul(x.n, y.d, r), LNeg(LMul(y.n, x.d, r))),
               LMul(x.d, y.d, r), r)

Mul(x, y) ==
  IF Faulty(x, y) THEN Raise
  ELSE IF AnyNaN(x, y) THEN NaN
  ELSE IF y.f = "log" THEN LogForm(RMul(RatOf(x), y.c), y.q, y.e)
  ELSE IF x.f = "log" THEN LogForm(RMul(RatOf(y), x.c), x.q, x.e)
  ELSE IF IsRational(x) /\ IsRational(y) THEN Num(RMul(RatOf(x), RatOf(y)))
  ELSE LET r == Rad(x, y)
       IN  Alg(LMul(x.n, y.n, r), LMul(x.d, y.d, r), r)

(* a / b: ZeroDivisionError when b == 0, also for a nan numerator *)
Div(x, y) ==
  IF Faulty(x, y) THEN Raise
  ELSE IF EqZero(y) THEN Raise
  ELSE IF AnyNaN(x, y) THEN NaN
  ELSE IF x.f = "log" THEN LogForm(RDiv(x.c, RatOf(y)), x.q, x.e)
  ELSE IF y.f = "log" THEN LogForm(RDiv(RatOf(x), y.c), y.q, -y.e)
  ELSE IF IsRational(x) /\ IsRational(y) THEN Num(RDiv(RatOf(x), RatOf(y)))
  ELSE LET r == Rad(x, y)
       IN  Alg(LMul(x.n, y.d, r), LMul(x.d, y.n, r), r)

(* math.sqrt: ValueError below zero *)
Sqrt(x) ==
  IF x.k \in {"Raise", "None"} THEN Raise
  ELSE IF x.k = "NaN" THEN NaN
  ELSE IF Sign(x) < 0 THEN Raise
  ELSE IF Sign(x) = 0 THEN Num(RInt(0))
  ELSE Alg(Lin(RInt(0), RInt(1)), LOne, RatOf(x))

(* math.log10: ValueError at zero and below *)
Log10(x) ==
  IF x.k \in {"Raise", "None"} THEN Raise
  ELSE IF x.k = "NaN" THEN NaN
  ELSE IF Sign(x) <= 0 THEN Raise
  ELSE LogForm(RInt(1), RatOf(x), 1)

(* the exponent as an integer: c*log10(q) or c/log10(q) is an integer only *)
(* for q a power of ten, log10(q) = j, with c*j or c/j an integer          *)
ExpoOf(y) ==
  LET j == IF IsPow10(y.q) THEN Log10Exact(y.q) ELSE 0
      m == IF y.e = 1 THEN RMul(y.c, RInt(j))
           ELSE IF j = 0 THEN Rat(1, 2) ELSE RDiv(y.c, RInt(j))
  IN  [int |-> IsPow10(y.q) /\ m.d = 1, m |-> m.n]

(* x ** y for floats: x ** 0 is 1.0; 0.0 to a negative power raises        *)
(* ZeroDivisionError; a negative base to a non-integer power is a complex  *)
(* number, not an exception                                                *)
Pow(x, y) ==
  IF Faulty(x, y) THEN Raise
  ELSE IF EqZero(y) THEN Num(RInt(1))
  ELSE IF AnyNaN(x, y) THEN NaN
  ELSE IF Sign(x) > 0
       THEN IF y.e = 1 /\ IsRational(x) /\ IsPow10(RatOf(x))
               /\ RMul(y.c, RInt(Log10Exact(RatOf(x)))).d = 1
            THEN (* (10^j)^(c*log10 q) = q^(c*j) *)
                 Num(RPowInt(y.q, RMul(y.c, RInt(Log10Exact(RatOf(x)))).n))
            ELSE PowForm(1)
  ELSE IF Sign(x) = 0
       THEN IF Sign(y) > 0 THEN Num(RInt(0)) ELSE Raise
  ELSE IF ExpoOf(y).int
       THEN PowForm(IF ExpoOf(y).m % 2 = 0 THEN 1 ELSE -1)
  ELSE Complex

(***************************************************************************)
(* Helpers (src/Fat1.py 18-27)                                             *)
(***************************************************************************)
(* def safe_div(a, b, fallback=float("nan")): the arguments are evaluated  *)
(* by the caller, so an exception in them is not caught here; b != 0 is    *)
(* True for nan and for None, and a / None raises inside the try           *)
safe_div(a, b, fallback) ==
  IF a.k = "Raise" \/ b.k = "Raise" THEN Raise
  ELSE IF NeZero(b)
       THEN LET q == Div(a, b) IN IF q.k = "Raise" THEN fallback ELSE q
  ELSE fallback

(* round-half-even of a rational to an integer *)
RoundRat(q) ==
  LET fl  == q.n \div q.d
      rem == q.n - fl * q.d
  IN  IF 2 * rem < q.d THEN fl
      ELSE IF 2 * rem > q.d THEN fl + 1
      ELSE IF fl % 2 = 0 THEN fl ELSE fl + 1

(* f"{x:.2f}" as the number of hundredths printed, for a rational and for  *)
(* a rational multiple b*s of the root: round(|b|*s*100) is the integer h  *)
(* nearest to sqrt(b*b*r*10^4)                                             *)
Hundredths(x) ==
  IF IsRational(x) THEN RoundRat(RMul(RatOf(x), RInt(100)))
  ELSE LET y2 == RMul(RMul(x.n.b, x.n.b), RMul(x.r, RInt(10000)))
           fl == ISqrt(y2.n \div y2.d)
           up == RCmp(y2, Rat((2 * fl + 1) * (2 * fl + 1), 4)) > 0
       IN  RSign(x.n.b) * (IF up THEN fl + 1 ELSE fl)

(* def fmt(x, d): the placeholder for None and nan (a finite model value   *)
(* is never inf), else the formatted number; a complex number is neither   *)
(* None nor a float and is formatted as a number                           *)
fmt(x) ==
  IF x.k = "None" \/ x.k = "NaN" THEN "dash"
  ELSE IF x.k = "Complex" THEN "complex number"
  ELSE "number"

(***************************************************************************)
(* Calculations (src/Fat1.py 46, 75-131), one definition per name the      *)
(* script binds, its parameters the names it reads.                        *)
(***************************************************************************)
(* x**2 *)
Square(x) == Mul(x, x)

(* x not in (None, 0) *)
NotNoneOrZero(x) == x.k # "None" /\ NeZero(x)

t(Do, D) == Div(Sub(Do, D), Float(2, 1))

Sh(p, tv, D) ==
  safe_div(Mul(p, Add(tv, Mul(Float(57, 100), D))), Mul(Float(100, 1), tv), NaN)

(* Sl with safe_div falling back to 0.0 *)
SlZeroFallback(p, D, Do) ==
  safe_div(Mul(p, Square(D)),
           Mul(Float(100, 1), Sub(Square(Do), Square(D))), Float(0, 1))

Sl(p, D, Do) ==
  safe_div(Mul(p, Square(D)),
           Mul(Float(100, 1), Sub(Square(Do), Square(D))), NaN)

(* Sc_term with the sign of Sl**2 slipped *)
Sc_termSign(Shv, Slv) == Sub(Sub(Square(Shv), Square(Slv)), Mul(Shv, Slv))

Sc_term(Shv, Slv) == Sub(Add(Square(Shv), Square(Slv)), Mul(Shv, Slv))

(* Sc with the guard Sc_term > 0 *)
ScStrict(term) ==
  IF GtZero(term) THEN Sqrt(term) ELSE NaN

Sc(term) ==
  IF GeZero(term) THEN Sqrt(term) ELSE NaN

Sa(Scv) == safe_div(Scv, Float(2, 1), NaN)

Sm(Scv) == safe_div(Scv, Float(2, 1), NaN)

(* Se without the factor 0.5 *)
SeNoHalf(k, Sut) ==
  Mul(Mul(Mul(Mul(Mul(Mul(Mul(Mul(k.ka, k.kb), k.kc), k.kd),
      k.ke), k.kh), k.kl), k.km), Sut)

Se(k, Sut) ==
  Mul(Mul(Mul(Mul(Mul(Mul(Mul(Mul(Mul(Float(1, 2), k.ka), k.kb), k.kc), k.kd),
      k.ke), k.kh), k.kl), k.km), Sut)

den_perm(Sev) == safe_div(Float(1, 1), Sev, None)

(* Sp left at the value of the previous run instead of reset to None *)
SpStale == out.Sp

SpDefault == None

Sp(dp, Sav, Smv, Sut) ==
  IF dp.k # "None" /\ NeZero(Smv) /\ NeZero(Sut)
       THEN safe_div(Float(1, 1), Add(dp, Div(Sav, Mul(Smv, Sut))), NaN)
  ELSE SpDefault

(* Sq with a plain division instead of safe_div *)
SqPlainDiv(Smv, Sav, Sut) ==
  IF NeZero(Sut)
       THEN Div(Smv, Sub(Float(1, 1), Div(Sav, Sut)))
  ELSE None

Sq(Smv, Sav, Sut) ==
  IF NeZero(Sut)
       THEN safe_div(Smv, Sub(Float(1, 1), Div(Sav, Sut)), NaN)
  ELSE None

(* B with the guard Se >= 0 *)
BGuardGe(Sev, Sut) ==
  IF GeZero(Sev) /\ GtZero(Mul(Float(9, 10), Sut))
       THEN Div(Sub(Log10(Sev), Log10(Mul(Float(9, 10), Sut))), Float(3, 1))
  ELSE None

B(Sev, Sut) ==
  IF GtZero(Sev) /\ GtZero(Mul(Float(9, 10), Sut))
       THEN Div(Sub(Log10(Sev), Log10(Mul(Float(9, 10), Sut))), Float(3, 1))
  ELSE None

A(Sev, Bv) ==
  IF Bv.k # "None"
       THEN safe_div(Sev, Pow(Float(10, 1), Mul(Float(6, 1), Bv)), NaN)
  ELSE None

static_fos(Spv, Sav) ==
  IF Spv.k # "None" /\ NotNoneOrZero(Sav) THEN Div(Spv, Sav)
  ELSE None

fatigue_fos(Sqv, Sav) ==
  IF Sqv.k # "None" /\ NotNoneOrZero(Sav) THEN Div(Sqv, Sav)
  ELSE None

(* life_cycles without the try/except *)
life_cyclesNoTry(Av, Bv, Sqv) ==
  IF NotNoneOrZero(Av) /\ NotNoneOrZero(Bv) /\ Sqv.k # "None"
       THEN Pow(Div(Sqv, Av), Div(Float(1, 1), Bv))
  ELSE None

(* try: (Sq / A) ** (1.0 / B)  except Exception: float("nan") *)
life_cycles(Av, Bv, Sqv) ==
  IF NotNoneOrZero(Av) /\ NotNoneOrZero(Bv) /\ Sqv.k # "None"
       THEN LET v == Pow(Div(Sqv, Av), Div(Float(1, 1), Bv))
            IN  IF v.k = "Raise" THEN NaN ELSE v
  ELSE None

(***************************************************************************)
(* The widgets.  A number_input holds a float (here a whole number of its  *)
(* unit); a slider holds a multiple of its step 0.001 (here the number of  *)
(* thousandths).  d, dh and Syt are read by no formula and are left out.   *)
(***************************************************************************)
NumberInputs == {"p", "D", "Do", "Sut"}

Sliders == {"ka", "kb", "kc", "kd", "ke", "kh", "kl", "km"}

Defaults ==
  [p |-> 207, D |-> 75, Do |-> 87, Sut |-> 60,
   ka |-> 750, kb |-> 1000, kc |-> 814, kd |-> 1000,
   ke |-> 1000, kh |-> 1000, kl |-> 850, km |-> 1000]

(* the slider ranges: 0.00 .. 1.00, and 0.00 .. 2.00 for kh *)
SliderMax(w) == IF w = "kh" THEN 2000 ELSE 1000

(* the values the model lets the user enter *)
Choices ==
  [p |-> {-207, 0, 200, 207}, D |-> {-75, 0, 75}, Do |-> {0, 75, 87},
   Sut |-> {-60, 0, 1, 60},
   ka |-> {0, 750, 1000}, kb |-> {1000}, kc |-> {814, 1000}, kd |-> {1000},
   ke |-> {1000}, kh |-> {1000, 1800, 2000}, kl |-> {850, 1000}, km |-> {1000}]

(* the names the script binds, in the order of its statements *)
Statements ==
  <<"t", "Sh", "Sl", "Sc_term", "Sc", "Sa", "Sm", "Se", "den_perm", "Sp",
    "Sq", "B", "A", "static_fos", "fatigue_fos", "life_cycles">>

Unbound == [k |-> "Unbound"]

(* the module namespace at line 45: the widget values, nothing computed *)
Namespace(i) ==
  [n \in NumberInputs \cup Sliders \cup {Statements[j] : j \in 1..Len(Statements)}
     |-> IF n \in NumberInputs THEN Float(i[n], 1)
         ELSE IF n \in Sliders THEN Float(i[n], 1000)
         ELSE Unbound]

(* the value the statement binding name computes in the namespace e *)
Eval(name, e) ==
  CASE name = "t"           -> t(e.Do, e.D)
    [] name = "Sh"          -> Sh(e.p, e.t, e.D)
    [] name = "Sl"          -> Sl(e.p, e.D, e.Do)
    [] name = "Sc_term"     -> Sc_term(e.Sh, e.Sl)
    [] name = "Sc"          -> Sc(e.Sc_term)
    [] name = "Sa"          -> Sa(e.Sc)
    [] name = "Sm"          -> Sm(e.Sc)
    [] name = "Se"          -> Se(e, e.Sut)
    [] name = "den_perm"    -> den_perm(e.Se)
    [] name = "Sp"          -> Sp(e.den_perm, e.Sa, e.Sm, e.Sut)
    [] name = "Sq"          -> Sq(e.Sm, e.Sa, e.Sut)
    [] name = "B"           -> B(e.Se, e.Sut)
    [] name = "A"           -> A(e.Se, e.B)
    [] name = "static_fos"  -> static_fos(e.Sp, e.Sa)
    [] name = "fatigue_fos" -> fatigue_fos(e.Sq, e.Sa)
    [] name = "life_cycles" -> life_cycles(e.A, e.B, e.Sq)

(* the statements from the j-th on, run in order; an exception that no     *)
(* try catches ends the run and leaves the later names unbound             *)
RECURSIVE RunFrom(_, _)
Bind(j, e, v) ==
  IF v.k = "Raise" THEN [e EXCEPT ![Statements[j]] = v]
  ELSE RunFrom(j + 1, [e EXCEPT ![Statements[j]] = v])

RunFrom(j, e) ==
  IF j > Len(Statements) THEN e ELSE Bind(j, e, Eval(Statements[j], e))

(* one run of the script on the widget values i: the names it has bound *)
Script(i) ==
  LET e == RunFrom(1, Namespace(i))
  IN  [n \in {Statements[j] : j \in 1..Len(Statements)} |-> e[n]]

(***************************************************************************)
(* memo is a history variable, not program state: a remembered earlier run *)
(* (its widget values and its results) and whether a run on other widget   *)
(* values has happened since.                                              *)
(***************************************************************************)
NoMemo == [set |-> FALSE]

Track(i) ==
  IF memo.set /\ i # memo.inp THEN [memo EXCEPT !.between = TRUE] ELSE memo

Init ==
  /\ inp = Defaults
  /\ out = Script(Defaults)
  /\ memo = NoMemo

(* the user edits a number_input or moves a slider (within its range):   *)
(* Streamlit re-runs the script on the new widget values                   *)
Edit(w, v) ==
  /\ v # inp[w]
  /\ w \in Sliders => v \in 0..SliderMax(w)
  /\ inp' = [inp EXCEPT ![w] = v]
  /\ out' = Script(inp')
  /\ memo' = Track(inp')

Next == \E w \in NumberInputs \cup Sliders : \E v \in Choices[w] : Edit(w, v)

Spec == Init /\ [][Next]_vars

(* Two runs compared: the observer remembers one run, the user goes on     *)
(* editing.  The widgets edited here are a part of the panel, so that      *)
(* every pair of their settings is compared.                               *)
Remember ==
  /\ ~memo.set
  /\ memo' = [set |-> TRUE, inp |-> inp, out |-> out, between |-> FALSE]
  /\ UNCHANGED <<inp, out>>

HistWidgets == {"p", "Sut", "kh"}

NextHist ==
  \/ Remember
  \/ \E w \in HistWidgets : \E v \in Choices[w] : Edit(w, v)

SpecHist == Init /\ [][NextHist]_vars

(***************************************************************************)
(* Vocabulary of the claims                                                *)
(***************************************************************************)
ResultFields ==
  {"t", "Sh", "Sl", "Sc", "Sa", "Sm", "Se", "Sp", "Sq", "B", "A",
   "static_fos", "fatigue_fos", "life_cycles"}

(* the not-available marker: None or nan *)
NA(x) == x.k \in {"None", "NaN"}

NotAvailable == {f \in ResultFields : NA(out[f])}

AllSlidersPositive == \A w \in Sliders : inp[w] > 0

(* the square of a rational value or of a rational multiple of the root *)
AbsSq(x) ==
  IF IsRational(x) THEN RMul(RatOf(x), RatOf(x))
  ELSE RMul(RMul(x.n.b, x.n.b), x.r)

(* |x| < |y| for two such values, which may come from different runs *)
AbsLess(x, y) == IsNum(x) /\ IsNum(y) /\ RCmp(AbsSq(x), AbsSq(y)) < 0

(* the results of the run on the present widgets with p replaced by p2 *)
WithLoad(p2) == Script([inp EXCEPT !.p = p2])

(***************************************************************************)
(* C1 (as stated): on every input record the chain from Sh to life_cycles  *)
(* runs to completion with no unhandled fault, and every result field is   *)
(* a real number or the not-available marker None/nan.                     *)
(***************************************************************************)
C1_EveryFieldRealOrNA ==
  \A f \in ResultFields : IsNum(out[f]) \/ NA(out[f])

(***************************************************************************)
(* C2 (as stated): with Do = D, Sut > 0 and all K-factors > 0, the fields  *)
(* not available are exactly Sh, Sc, Sa, Sm, Sp, Sq, static_fos,           *)
(* fatigue_fos, life_cycles, and Sl, Se, B, A are defined.                 *)
(***************************************************************************)
ZeroThickness == inp.Do = inp.D /\ inp.Sut > 0 /\ AllSlidersPositive

C2_CascadeWithoutSl ==
  ZeroThickness =>
    /\ NotAvailable = {"Sh", "Sc", "Sa", "Sm", "Sp", "Sq", "static_fos",
                       "fatigue_fos", "life_cycles"}
    /\ \A f \in {"Sl", "Se", "B", "A"} : IsNum(out[f])

(***************************************************************************)
(* C2 (amended): with Do = D, Sut > 0 and all K-factors > 0, the fields    *)
(* not available are exactly Sh, Sl, Sc, Sa, Sm, Sp, Sq, static_fos,       *)
(* fatigue_fos, life_cycles (Sl too: its denominator Do**2 - D**2 is 0),   *)
(* and t, Se, B, A are numbers.                                            *)
(***************************************************************************)
C2_CascadeWithSl ==
  ZeroThickness =>
    /\ NotAvailable = {"Sh", "Sl", "Sc", "Sa", "Sm", "Sp", "Sq", "static_fos",
                       "fatigue_fos", "life_cycles"}
    /\ \A f \in {"t", "Se", "B", "A"} : IsNum(out[f])

C2_Witness ==
  /\ ZeroThickness
  /\ inp.D # 0
  /\ out.Sh.k = "NaN"
  /\ out.Sl.k = "NaN"

(***************************************************************************)
(* C3 (as stated): when A, B, Sq are defined, A and B nonzero, the base    *)
(* Sq/A negative and 1/B not an integer, life_cycles is the not-available  *)
(* marker (shown as the placeholder), never a real or complex number.      *)
(***************************************************************************)
NegativeBase ==
  /\ IsNum(out.A) /\ IsNum(out.B) /\ IsNum(out.Sq)
  /\ NeZero(out.A) /\ NeZero(out.B)
  /\ Sign(Div(out.Sq, out.A)) < 0
  /\ ~ExpoOf(Div(Float(1, 1), out.B)).int

C3_NegativeBaseNotAvailable ==
  NegativeBase => NA(out.life_cycles) /\ fmt(out.life_cycles) = "dash"

(***************************************************************************)
(* C4 (as stated): at the nominal defaults t = 6.0, Sh = 15.87, Sl = 7.16, *)
(* Sc = 13.79, Sa = Sm = 6.90, Se = 15.57, each to two decimals.           *)
(***************************************************************************)
C4_NominalAsStated ==
  inp = Defaults =>
    /\ out.t = Float(6, 1)
    /\ Hundredths(out.Sh) = 1587
    /\ Hundredths(out.Sl) = 716
    /\ Hundredths(out.Sc) = 1379
    /\ Hundredths(out.Sa) = 690
    /\ Hundredths(out.Sm) = 690
    /\ Hundredths(out.Se) = 1557

(***************************************************************************)
(* C4 (amended): at the nominal defaults t = 6.0, Sh = 16.82, Sl = 5.99,   *)
(* Sc = 14.77, Sa = Sm = 7.38, Se = 15.57, each to two decimals.           *)
(***************************************************************************)
C4_Nominal ==
  inp = Defaults =>
    /\ out.t = Float(6, 1)
    /\ Hundredths(out.Sh) = 1682
    /\ Hundredths(out.Sl) = 599
    /\ Hundredths(out.Sc) = 1477
    /\ Hundredths(out.Sa) = 738
    /\ Hundredths(out.Sm) = 738
    /\ Hundredths(out.Se) = 1557

C4_Witness ==
  /\ inp = Defaults
  /\ IsNum(out.Sc) /\ ~IsRational(out.Sc)
  /\ out.Sa = out.Sm

(***************************************************************************)
(* C5: a denominator that is exactly 0 makes its quantity not available    *)
(* (never an infinite or other number, never a fault), and a quantity not  *)
(* available makes every quantity computed from it not available.          *)
(***************************************************************************)
(* the quantities each quantity is computed from *)
DependsOn ==
  [Sh |-> {"t"}, Sl |-> {}, Sc |-> {"Sh", "Sl"}, Sa |-> {"Sc"}, Sm |-> {"Sc"},
   Se |-> {}, Sp |-> {"Se", "Sa", "Sm"}, Sq |-> {"Sm", "Sa"}, B |-> {"Se"},
   A |-> {"Se", "B"}, static_fos |-> {"Sp", "Sa"},
   fatigue_fos |-> {"Sq", "Sa"}, life_cycles |-> {"Sq", "A", "B"}, t |-> {}]

(* the sum 1/Se + Sa/(Sm*Sut) is zero *)
SpSumZero ==
  /\ IsNum(out.Se) /\ IsNum(out.Sa) /\ IsNum(out.Sm)
  /\ NeZero(out.Se) /\ NeZero(out.Sm) /\ inp.Sut # 0
  /\ EqZero(Add(Div(Float(1, 1), out.Se),
                Div(out.Sa, Mul(out.Sm, Float(inp.Sut, 1)))))

SaEqualsSut ==
  IsNum(out.Sa) /\ EqZero(Sub(out.Sa, Float(inp.Sut, 1)))

C5_ZeroDenominatorNotAvailable ==
  /\ EqZero(out.t) => NA(out.Sh)
  /\ inp.Do * inp.Do = inp.D * inp.D => NA(out.Sl)
  /\ (EqZero(out.Se) \/ EqZero(out.Sm) \/ inp.Sut = 0 \/ SpSumZero)
        => NA(out.Sp)
  /\ (inp.Sut = 0 \/ SaEqualsSut) => NA(out.Sq)
  /\ EqZero(out.Sa) => NA(out.static_fos) /\ NA(out.fatigue_fos)
  /\ (EqZero(out.B) \/ EqZero(out.A)) => NA(out.life_cycles)
  /\ \A f \in ResultFields : \A g \in DependsOn[f] : NA(out[g]) => NA(out[f])

C5_Witness ==
  /\ inp.Sut # 0
  /\ SaEqualsSut
  /\ out.Sq.k = "NaN"
  /\ NA(out.fatigue_fos) /\ NA(out.life_cycles)

(***************************************************************************)
(* C6: B is a number if and only if Se > 0 and 0.9*Sut > 0; where that     *)
(* fails, B, A and life_cycles are all not available.                      *)
(***************************************************************************)
BComputable == GtZero(out.Se) /\ 9 * inp.Sut > 0

C6_BasquinGuard ==
  /\ IsNum(out.B) <=> BComputable
  /\ ~BComputable => NA(out.B) /\ NA(out.A) /\ NA(out.life_cycles)

C6_Witness ==
  /\ inp.Sut > 0
  /\ EqZero(out.Se)
  /\ out.B.k = "None" /\ out.A.k = "None" /\ out.life_cycles.k = "None"

(***************************************************************************)
(* C7 (as stated): for two input records differing only in p, p1 < p2,     *)
(* with t > 0 and Do > D: |Sh(p1)| < |Sh(p2)|, |Sl(p1)| < |Sl(p2)| and     *)
(* Sc(p1) < Sc(p2).                                                        *)
(***************************************************************************)
Increases(p2) ==
  /\ AbsLess(out.Sh, WithLoad(p2).Sh)
  /\ AbsLess(out.Sl, WithLoad(p2).Sl)
  /\ AbsLess(out.Sc, WithLoad(p2).Sc)

C7_MonotoneAnyLoad ==
  (GtZero(out.t) /\ inp.Do > inp.D) =>
    \A p2 \in Choices.p : inp.p < p2 => Increases(p2)

(***************************************************************************)
(* C7 (amended): for two input records differing only in p, with           *)
(* 0 <= p1 < p2, D > 0 and Do > D (so t > 0): |Sh(p1)| < |Sh(p2)|,         *)
(* |Sl(p1)| < |Sl(p2)| and Sc(p1) < Sc(p2).                                *)
(***************************************************************************)
C7_MonotonePositiveLoad ==
  (GtZero(out.t) /\ inp.Do > inp.D /\ inp.D > 0 /\ inp.p >= 0) =>
    \A p2 \in Choices.p : inp.p < p2 => Increases(p2)

C7_Witness ==
  /\ GtZero(out.t) /\ inp.Do > inp.D /\ inp.D > 0
  /\ inp.p > 0
  /\ \E p2 \in Choices.p : inp.p < p2 /\ Increases(p2)

ZeroBase ==
  /\ IsNum(out.A) /\ IsNum(out.B) /\ NeZero(out.A) /\ NeZero(out.B)
  /\ EqZero(out.Sq)

C9_ZeroBaseSentinel ==
  ZeroBase => NA(out.life_cycles)

(***************************************************************************)
(* C9 (amended): when A and B are defined and nonzero and Sq = 0,          *)
(* life_cycles is the undefined sentinel (nan) for B < 0 and the number 0  *)
(* for B > 0; it is never a fault.                                         *)
(***************************************************************************)
C9_ZeroBaseBySlope ==
  ZeroBase =>
    /\ Sign(out.B) < 0 => out.life_cycles.k = "NaN"
    /\ Sign(out.B) > 0 => EqZero(out.life_cycles)

C9_Witness ==
  /\ ZeroBase
  /\ Sign(out.B) > 0
  /\ EqZero(out.life_cycles)

(***************************************************************************)
(* C10: where Sh and Sl are both numbers the radicand Sc_term is >= 0, so  *)
(* Sc, Sa and Sm are not available exactly when Sh or Sl is, that is       *)
(* exactly when t = 0 or Do**2 = D**2.                                     *)
(***************************************************************************)
C10_RadicandNonNegative ==
  /\ (IsNum(out.Sh) /\ IsNum(out.Sl)) => GeZero(out.Sc_term)
  /\ NA(out.Sc) <=> (NA(out.Sh) \/ NA(out.Sl))
  /\ NA(out.Sa) <=> NA(out.Sc)
  /\ NA(out.Sm) <=> NA(out.Sc)
  /\ (NA(out.Sh) \/ NA(out.Sl))
       <=> (EqZero(out.t) \/ inp.Do * inp.Do = inp.D * inp.D)

C10_Witness ==
  /\ IsNum(out.Sh) /\ IsNum(out.Sl)
  /\ Sign(out.Sh) < 0 /\ Sign(out.Sl) < 0
  /\ GtZero(out.Sc_term)
  /\ IsNum(out.Sc) /\ IsNum(out.Sa) /\ IsNum(out.Sm)

====
